---- MODULE Spec2Model ----
(***************************************************************************)
(* CN2-SD (src/src/CN2_SD.py): the driver loop execute/do_step, the beam   *)
(* search find_best_rule with its trimming loop, the WRAcc scorer, the     *)
(* three covering / reweighting policies of apply_rule and the stop        *)
(* condition.                                                              *)
(*                                                                         *)
(* Numbers.  Weights and WRAcc values are floats in the program.  Here a   *)
(* weight w is the integer w * Scale (every weight the program writes is   *)
(* gamma^t or 1/(t+1), which divides Scale for the update counts that can  *)
(* occur, see ExactWeights), and a WRAcc value is an exact fraction        *)
(* <<numerator, denominator>> with a positive denominator, compared by     *)
(* RatLess.  Rounding of the float operations is not modelled.             *)
(***************************************************************************)
EXTENDS Integers, Sequences, FiniteSets, TLC

\* Largest number of rows of the enumerated input tables.
MaxRows == 2

\* Fixed-point unit of a weight: the weight 1.0 is Scale.
Scale == 3 * 100

FeatureNames == {"A", "B"}
Values == {"x", "y"}
Classes == {"Yes", "No"}
positive_class == "Yes"

\* The selector-eligible columns of the table, in schema order.
ColumnLists == {<<"A">>, <<"A", "B">>}

\* The configurations the runs are drawn from.
WeightMethods == {0, 1, 2}
Gammas == {<<1, 2>>, <<1, 10>>}
DefaultGamma == <<1, 2>>
MinWraccs == {<<0 - 1, 1>>, <<1, 100>>}
BeamWidths == {1, 2}

almost_zero == <<1, 10>>

\* Python's None for best_rule: the empty sequence; a rule r is <<r>>.
None == <<>>

--------------------------------------------------------------------------
(* Exact fractions *)

RECURSIVE RatLess(_, _)
\* a < b for fractions with positive denominators, by continued-fraction
\* expansion (no product of a numerator by a denominator is formed).
RatLess(a, b) ==
  LET qa == a[1] \div a[2]
      qb == b[1] \div b[2]
      ra == a[1] % a[2]
      rb == b[1] % b[2]
  IN  IF qa # qb THEN qa < qb
      ELSE IF rb = 0 THEN FALSE
      ELSE IF ra = 0 THEN TRUE
      ELSE RatLess(<<b[2], rb>>, <<a[2], ra>>)

RatEq(a, b) == ~RatLess(a, b) /\ ~RatLess(b, a)

RECURSIVE Pow(_, _)
Pow(b, e) == IF e = 0 THEN 1 ELSE b * Pow(b, e - 1)

--------------------------------------------------------------------------
(* The weighted dataset *)

\* add_weights: a weights column of ones and a weight_times column of zeros.
\* id is the row's index label (pandas RangeIndex of the input frame).
add_weights(data) ==
  [i \in DOMAIN data |->
     [id |-> i - 1, vals |-> data[i].vals, cls |-> data[i].cls,
      weights |-> Scale, weight_times |-> 0]]

IsPositive(row) == row.cls = positive_class

\* data[data[antecedent.variable] == antecedent.value] for every antecedent.
RECURSIVE FilterRule(_, _)
FilterRule(data, antecedents) ==
  IF antecedents = <<>> THEN data
  ELSE FilterRule(SelectSeq(data, LAMBDA r : r.vals[Head(antecedents)[1]] = Head(antecedents)[2]),
                  Tail(antecedents))

RECURSIVE SumWeights(_)
SumWeights(data) ==
  IF data = <<>> THEN 0 ELSE Head(data).weights + SumWeights(Tail(data))

\* The tuple of a row's column values (the index label is not a column).
RowTuple(row) == <<row.vals, row.cls, row.weights, row.weight_times>>

\* utils.data_frame_difference: the rows of df1 whose tuple is not the tuple
\* of a row of df2.
data_frame_difference(df1, df2) ==
  SelectSeq(df1, LAMBDA r : ~(\E j \in DOMAIN df2 : RowTuple(df2[j]) = RowTuple(r)))

--------------------------------------------------------------------------
(* Selectors and rules *)

RECURSIVE Unique(_, _)
\* The distinct values of a column in order of first appearance.
Unique(data, col) ==
  IF data = <<>> THEN <<>>
  ELSE LET rest == Unique(SelectSeq(Tail(data), LAMBDA r : r.vals[col] # Head(data).vals[col]), col)
       IN  <<Head(data).vals[col]>> \o rest

RECURSIVE generate_selectors(_, _)
\* One antecedent <<variable, value>> per eligible column and observed level.
generate_selectors(data, columns) ==
  IF columns = <<>> THEN <<>>
  ELSE LET levels == Unique(data, Head(columns))
       IN  [i \in DOMAIN levels |-> <<Head(columns), levels[i]>>]
           \o generate_selectors(data, Tail(columns))

\* Rule.is_equal: equal lengths and as many coincidences, counted over all
\* pairs of antecedents, as self has antecedents.
is_equal(self, other) ==
  IF Len(self) # Len(other) THEN FALSE
  ELSE Cardinality({p \in (DOMAIN self) \X (DOMAIN other) :
                      /\ self[p[1]][1] = other[p[2]][1]
                      /\ self[p[1]][2] = other[p[2]][2]}) = Len(self)

\* The first loop of is_valid: no variable is used twice.
NoRepeatedVariable(antecedents) ==
  \A i, j \in DOMAIN antecedents : i < j => antecedents[i][1] # antecedents[j][1]

\* is_valid with the comparison against the rule list left out.
is_valid_NoListCheck(antecedents, current_rule_list) ==
  NoRepeatedVariable(antecedents)

\* Rule.is_valid.
is_valid(antecedents, current_rule_list) ==
  /\ NoRepeatedVariable(antecedents)
  /\ \A k \in DOMAIN current_rule_list :
        ~is_equal(antecedents, current_rule_list[k].antecedents)

\* Rule(): no antecedents, wracc 0.
NewRule == [antecedents |-> <<>>, wracc |-> <<0, 1>>]

RECURSIVE Specialise(_, _, _)
\* The inner loop of generate_rule_set: rule_copy(rule) plus one selector,
\* kept when valid.
Specialise(rule, selector_list, current_rule_list) ==
  IF selector_list = <<>> THEN <<>>
  ELSE LET new_rule == [rule EXCEPT !.antecedents = Append(@, Head(selector_list))]
           rest == Specialise(rule, Tail(selector_list), current_rule_list)
       IN  IF is_valid(new_rule.antecedents, current_rule_list)
           THEN <<new_rule>> \o rest ELSE rest

RECURSIVE SpecialiseAll(_, _, _)
SpecialiseAll(rules, selector_list, current_rule_list) ==
  IF rules = <<>> THEN <<>>
  ELSE Specialise(Head(rules), selector_list, current_rule_list)
       \o SpecialiseAll(Tail(rules), selector_list, current_rule_list)

generate_rule_set(rules, selector_list, is_first, current_rule_list) ==
  IF is_first THEN Specialise(NewRule, selector_list, current_rule_list)
  ELSE SpecialiseAll(rules, selector_list, current_rule_list)

--------------------------------------------------------------------------
(* Scoring *)

\* calculate_WRAcc: (n_cond / N) * (n_class_cond / n_cond - n_class / N),
\* which is (n_class_cond * N - n_class * n_cond) / N^2; 0 when n_cond = 0.
calculate_WRAcc(data_cond, N, n_class) ==
  LET n_cond == SumWeights(data_cond)
      n_class_cond == SumWeights(SelectSeq(data_cond, IsPositive))
  IN  IF n_cond = 0 THEN <<0, 1>>
      ELSE <<n_class_cond * N - n_class * n_cond, N * N>>

\* The first half of check_rule: rule.wracc is set.
ScoreRule(rule, data, N, n_class) ==
  [rule EXCEPT !.wracc = calculate_WRAcc(FilterRule(data, rule.antecedents), N, n_class)]

\* check_rule with >= for >: the last of several best candidates wins.
check_rule_LastWins(rule, new_best) ==
  IF new_best = None THEN <<rule>>
  ELSE IF ~RatLess(rule.wracc, new_best[1].wracc) THEN <<rule>> ELSE new_best

\* check_rule with the None case dropped: a candidate must beat wracc 0.
check_rule_BeatZero(rule, new_best) ==
  IF new_best = None
  THEN IF RatLess(<<0, 1>>, rule.wracc) THEN <<rule>> ELSE None
  ELSE IF RatLess(new_best[1].wracc, rule.wracc) THEN <<rule>> ELSE new_best

\* The second half of check_rule: the scored rule against the best so far.
check_rule(rule, new_best) ==
  IF new_best = None THEN <<rule>>
  ELSE IF RatLess(new_best[1].wracc, rule.wracc) THEN <<rule>> ELSE new_best

\* The rules of a rule set with their wracc set.
ScoreAll(rules, data) ==
  LET N == SumWeights(data)
      n_class == SumWeights(SelectSeq(data, IsPositive))
  IN  [i \in DOMAIN rules |-> ScoreRule(rules[i], data, N, n_class)]

RECURSIVE BestOf(_, _)
\* The loop of find_best over the scored rules.
BestOf(scored_rules, new_best) ==
  IF scored_rules = <<>> THEN new_best
  ELSE BestOf(Tail(scored_rules), check_rule(Head(scored_rules), new_best))

find_best(rules, best, data) == BestOf(ScoreAll(rules, data), best)

--------------------------------------------------------------------------
(* Trimming *)

RECURSIVE WorstScan_Last(_, _, _, _)
\* WorstScan with <= for <: the last lowest candidate.
WorstScan_Last(rules, i, worst_wracc, worst_rule) ==
  IF i > Len(rules) THEN worst_rule
  ELSE IF ~RatLess(worst_wracc, rules[i].wracc)
       THEN WorstScan_Last(rules, i + 1, rules[i].wracc, i)
       ELSE WorstScan_Last(rules, i + 1, worst_wracc, worst_rule)

RECURSIVE WorstScan(_, _, _, _)
\* The loop of eliminate_worst; worst_rule is a position, 0 for None.
WorstScan(rules, i, worst_wracc, worst_rule) ==
  IF i > Len(rules) THEN worst_rule
  ELSE IF RatLess(rules[i].wracc, worst_wracc)
       THEN WorstScan(rules, i + 1, rules[i].wracc, i)
       ELSE WorstScan(rules, i + 1, worst_wracc, worst_rule)

RemoveAt(s, k) == SubSeq(s, 1, k - 1) \o SubSeq(s, k + 1, Len(s))

\* eliminate_worst: rule_set.remove(worst_rule) removes that very object.
eliminate_worst(rules) ==
  LET worst_rule == WorstScan(rules, 1, <<1, 1>>, 0)
  IN  IF worst_rule = 0 THEN rules ELSE RemoveAt(rules, worst_rule)

--------------------------------------------------------------------------
(* Policies *)

\* NewWeight with the count after the update in place of the one before.
NewWeight_CountAfter(method, g, t) ==
  IF method = 1 THEN (Scale * Pow(g[1], t + 1)) \div Pow(g[2], t + 1)
  ELSE Scale \div (t + 2)

\* The weight written for update count t: gamma ** t or 1 / (t + 1).
NewWeight(method, g, t) ==
  IF method = 1 THEN (Scale * Pow(g[1], t)) \div Pow(g[2], t)
  ELSE Scale \div (t + 1)

\* apply_rule.  The assignments through .loc address rows by index label;
\* a label that is no longer in the frame raises KeyError.
apply_rule(rule, data, method, g) ==
  LET data_rule == FilterRule(data, rule.antecedents)
      data_rule_positive == SelectSeq(data_rule, IsPositive)
      labels == {data_rule_positive[i].id : i \in DOMAIN data_rule_positive}
      weighted ==
        IF method \in {1, 2}
        THEN [i \in DOMAIN data |->
                IF data[i].id \in labels
                THEN [data[i] EXCEPT !.weights = NewWeight(method, g, data[i].weight_times)]
                ELSE data[i]]
        ELSE IF method = 0 THEN data_frame_difference(data, data_rule)
        ELSE data
      present == {weighted[i].id : i \in DOMAIN weighted}
      times == [l \in labels |->
                  (CHOOSE i \in DOMAIN data_rule_positive :
                      data_rule_positive[i].id = l)]
  IN  IF ~(labels \subseteq present)
      THEN [data |-> weighted, raised |-> TRUE]
      ELSE [data |-> [i \in DOMAIN weighted |->
                        IF weighted[i].id \in labels
                        THEN [weighted[i] EXCEPT !.weight_times =
                                data_rule_positive[times[weighted[i].id]].weight_times + 1]
                        ELSE weighted[i]],
            raised |-> FALSE]

\* stop_condition.
stop_condition(best, data, min) ==
  LET positive_examples == SelectSeq(data, IsPositive)
      total_positive == Len(positive_examples)
      total_almost_zero ==
        Cardinality({i \in DOMAIN positive_examples :
                       RatLess(<<positive_examples[i].weights, Scale>>, almost_zero)})
  IN  \/ best = None
      \/ RatLess(best[1].wracc, min)
      \/ total_almost_zero = total_positive

--------------------------------------------------------------------------
(* The program *)

VARIABLES
  columns,        \* the selector-eligible columns of current_data
  weight_method, gamma, min_wracc, max_expr,
  current_data, rule_list,
  pc,             \* position in execute / do_step / find_best_rule
  rule_set, new_rule_set, best_rule, selector_list, first,
  end,            \* what the last do_step reported: "RUNNING" or "STOPPED"
  scored,         \* history: the candidates scored in the current search
  removed,        \* history: the candidates trimmed in the current round
  round_size,     \* history: the number of valid candidates of the round
  rounds,         \* history: rounds of the current search
  steps           \* history: calls of do_step

vars == <<columns, weight_method, gamma, min_wracc, max_expr, current_data,
          rule_list, pc, rule_set, new_rule_set, best_rule, selector_list,
          first, end, scored, removed, round_size, rounds, steps>>

config == <<columns, weight_method, gamma, min_wracc, max_expr>>
history == <<scored, removed, round_size, rounds>>

Rows(cols) ==
  [vals : {v \in [FeatureNames -> Values] :
             \A f \in FeatureNames : (\A i \in DOMAIN cols : cols[i] # f) => v[f] = "x"},
   cls : Classes]

Tables(cols) == UNION {[1..n -> Rows(cols)] : n \in 1..MaxRows}

\* End-to-end scenario 1 of the specification: ten rows, one feature.
Scenario1Table ==
  [i \in 1..10 |->
     IF i <= 5 THEN [vals |-> [f \in FeatureNames |-> "x"], cls |-> "Yes"]
     ELSE [vals |-> [f \in FeatureNames |-> IF f = "A" THEN "y" ELSE "x"], cls |-> "No"]]

IsScenario1 ==
  /\ columns = <<"A">> /\ weight_method = 0 /\ min_wracc = <<1, 100>> /\ max_expr = 5

\* CN2_SD.__init__ on a table that checkear_entrada let through (the
\* positive class occurs in the output column).
Init ==
  /\ \/ /\ columns \in ColumnLists
        /\ weight_method \in WeightMethods
        /\ gamma \in IF weight_method = 1 THEN Gammas ELSE {DefaultGamma}
        /\ min_wracc \in MinWraccs
        /\ max_expr \in BeamWidths
        /\ \E input_data \in Tables(columns) :
              /\ \E i \in DOMAIN input_data : IsPositive(input_data[i])
              /\ current_data = add_weights(input_data)
     \/ /\ columns = <<"A">>
        /\ weight_method = 0
        /\ gamma = DefaultGamma
        /\ min_wracc = <<1, 100>>
        /\ max_expr = 5
        /\ current_data = add_weights(Scenario1Table)
  /\ rule_list = <<>>
  /\ pc = "do_step"
  /\ rule_set = <<>>
  /\ new_rule_set = <<>>
  /\ best_rule = None
  /\ selector_list = <<>>
  /\ first = TRUE
  /\ end = "RUNNING"
  /\ scored = <<>>
  /\ removed = <<>>
  /\ round_size = 0
  /\ rounds = 0
  /\ steps = 0

\* do_step calls find_best_rule, which sets up its search (lines 98-104).
StartSearch ==
  /\ pc = "do_step"
  /\ rule_set' = <<>>
  /\ new_rule_set' = <<>>
  /\ best_rule' = None
  /\ selector_list' = generate_selectors(current_data, columns)
  /\ first' = TRUE
  /\ scored' = <<>>
  /\ removed' = <<>>
  /\ round_size' = 0
  /\ rounds' = 0
  /\ steps' = steps + 1
  /\ pc' = "round"
  /\ UNCHANGED <<config, current_data, rule_list, end>>

\* One pass of the search loop up to the trimming (lines 106-108).
BeamRound ==
  /\ pc = "round"
  /\ LET generated == generate_rule_set(rule_set, selector_list, first, rule_list)
         scored_set == ScoreAll(generated, current_data)
     IN  /\ new_rule_set' = scored_set
         /\ best_rule' = find_best(generated, best_rule, current_data)
         /\ scored' = scored \o scored_set
         /\ round_size' = Len(generated)
  /\ first' = FALSE
  /\ removed' = <<>>
  /\ rounds' = rounds + 1
  /\ pc' = "trim"
  /\ UNCHANGED <<config, current_data, rule_list, rule_set, selector_list, end, steps>>

\* One pass of the trimming loop (lines 109-110).
Trim ==
  /\ pc = "trim"
  /\ Len(new_rule_set) > max_expr
  /\ new_rule_set' = eliminate_worst(new_rule_set)
  /\ removed' = (IF WorstScan(new_rule_set, 1, <<1, 1>>, 0) = 0 THEN removed
                 ELSE Append(removed, new_rule_set[WorstScan(new_rule_set, 1, <<1, 1>>, 0)]))
  /\ UNCHANGED <<config, current_data, rule_list, pc, rule_set, best_rule,
                 selector_list, first, end, scored, round_size, rounds, steps>>

\* The end of a pass of the search loop (lines 111-114).
EndRound ==
  /\ pc = "trim"
  /\ Len(new_rule_set) <= max_expr
  /\ rule_set' = new_rule_set
  /\ pc' = IF Len(new_rule_set) = 0 THEN "accept" ELSE "round"
  /\ UNCHANGED <<config, current_data, rule_list, new_rule_set, best_rule,
                 selector_list, first, end, scored, removed, round_size, rounds, steps>>

\* best_rule and best_rule.wracc >= self.min_wracc
Accepts == best_rule # None /\ ~RatLess(best_rule[1].wracc, min_wracc)

Report(stopped) == IF stopped THEN "STOPPED" ELSE "RUNNING"

\* do_step after the search, a rule accepted (lines 83-89) and execute's
\* loop test (lines 67-68).
AcceptRule ==
  /\ pc = "accept"
  /\ Accepts
  /\ LET applied == apply_rule(best_rule[1], current_data, weight_method, gamma)
     IN  /\ ~applied.raised
         /\ current_data' = applied.data
         /\ rule_list' = Append(rule_list, best_rule[1])
         /\ end' = Report(stop_condition(best_rule, applied.data, min_wracc))
         /\ pc' = IF stop_condition(best_rule, applied.data, min_wracc) THEN "done" ELSE "do_step"
  /\ UNCHANGED <<config, rule_set, new_rule_set, best_rule, selector_list, first,
                 history, steps>>

\* do_step after the search, apply_rule raising KeyError at line 209: the
\* frame is already replaced (line 208), nothing is appended or reported,
\* and the exception leaves do_step and execute.
AcceptRaises ==
  /\ pc = "accept"
  /\ Accepts
  /\ LET applied == apply_rule(best_rule[1], current_data, weight_method, gamma)
     IN  /\ applied.raised
         /\ current_data' = applied.data
  /\ pc' = "KeyError"
  /\ UNCHANGED <<config, rule_list, rule_set, new_rule_set, best_rule, selector_list,
                 first, end, history, steps>>

\* do_step after the search, no rule accepted (lines 83, 87-89).
RejectRule ==
  /\ pc = "accept"
  /\ ~Accepts
  /\ end' = Report(stop_condition(best_rule, current_data, min_wracc))
  /\ pc' = IF stop_condition(best_rule, current_data, min_wracc) THEN "done" ELSE "do_step"
  /\ UNCHANGED <<config, current_data, rule_list, rule_set, new_rule_set, best_rule,
                 selector_list, first, history, steps>>

Next ==
  \/ StartSearch
  \/ BeamRound
  \/ Trim
  \/ EndRound
  \/ AcceptRule
  \/ AcceptRaises
  \/ RejectRule

Spec == Init /\ [][Next]_vars

--------------------------------------------------------------------------
(* Sanity of the number representation *)

\* Every weight the program holds is represented without truncation.
ExactWeights ==
  \A i \in DOMAIN current_data :
     LET t == current_data[i].weight_times
     IN  /\ weight_method = 1 /\ t > 0 =>
               /\ (Scale * Pow(gamma[1], t - 1)) % Pow(gamma[2], t - 1) = 0
               /\ current_data[i].weights * Pow(gamma[2], t - 1) = Scale * Pow(gamma[1], t - 1)
         /\ weight_method = 2 /\ t > 0 => current_data[i].weights * t = Scale
         /\ t = 0 => current_data[i].weights = Scale

TypeOK ==
  /\ pc \in {"do_step", "round", "trim", "accept", "done", "KeyError"}
  /\ end \in {"RUNNING", "STOPPED"}
  /\ Len(best_rule) <= 1

--------------------------------------------------------------------------
(* Vocabulary of the properties *)

\* A row satisfies every antecedent of a conjunction.
Covers(antecedents, row) ==
  \A i \in DOMAIN antecedents : row.vals[antecedents[i][1]] = antecedents[i][2]

\* A conjunction as an unordered collection of (feature, value) pairs.
AntecedentSet(antecedents) == {antecedents[i] : i \in DOMAIN antecedents}

\* The three clauses of the stop predicate on a dataset.
StopClauses(best, data) ==
  \/ best = None
  \/ RatLess(best[1].wracc, min_wracc)
  \/ \A i \in DOMAIN data :
        data[i].cls = positive_class => 10 * data[i].weights < Scale

\* The dataset a policy is specified to leave behind.
PolicyResult(antecedents, data) ==
  IF weight_method = 0
  THEN SelectSeq(data, LAMBDA r : ~Covers(antecedents, r))
  ELSE [i \in DOMAIN data |->
          IF Covers(antecedents, data[i]) /\ data[i].cls = positive_class
          THEN [data[i] EXCEPT
                  !.weights = IF weight_method = 1
                              THEN (Scale * Pow(gamma[1], data[i].weight_times))
                                     \div Pow(gamma[2], data[i].weight_times)
                              ELSE Scale \div (data[i].weight_times + 1),
                  !.weight_times = @ + 1]
          ELSE data[i]]

\* Some conjunction of selectors of the current data is a valid rule.
ExistsValidConjunction ==
  LET sels == generate_selectors(current_data, columns)
      S == {sels[i] : i \in DOMAIN sels}
  IN  \E n \in 1..Len(columns) : \E c \in [1..n -> S] :
         /\ \A i, j \in 1..n : i < j => c[i][1] # c[j][1]
         /\ \A k \in DOMAIN rule_list :
               AntecedentSet(c) # AntecedentSet(rule_list[k].antecedents)

\* Some single selector of the current data is a valid rule.
ExistsValidSelector ==
  LET sels == generate_selectors(current_data, columns)
  IN  \E i \in DOMAIN sels : \A k \in DOMAIN rule_list :
         AntecedentSet(rule_list[k].antecedents) # {sels[i]}

Min(a, b) == IF a <= b THEN a ELSE b

--------------------------------------------------------------------------
(* Properties *)

\* C1: every driver step reports STOPPED exactly when, on the dataset as it
\* is after the acceptance attempt of that step, no rule was returned, or
\* the returned rule's WRAcc is below min_wracc, or every positive example
\* has weight < 0.1; in every other case it reports RUNNING.
C1_StepReportsStopIff ==
  [][pc = "accept" =>
       /\ pc' \in {"done", "do_step"}
       /\ (end' = "STOPPED") <=> StopClauses(best_rule, current_data')
       /\ (end' = "RUNNING") <=> ~StopClauses(best_rule, current_data')
       /\ (pc' = "done") <=> (end' = "STOPPED")]_vars

C3_NoSetEqualRules ==
  \A i, j \in DOMAIN rule_list :
     i < j => AntecedentSet(rule_list[i].antecedents) # AntecedentSet(rule_list[j].antecedents)

\* C3 witness: a finished run that accepted at least three rules, one of them
\* a two-antecedent rule found before the round that ended its search.
C3_Witness ==
  /\ pc = "done"
  /\ Len(rule_list) >= 3
  /\ \E k \in DOMAIN rule_list : Len(rule_list[k].antecedents) = 2

\* C4: under the multiplicative and additive policies an accepted rule
\* changes exactly the covered positive examples: weight gamma^t or 1/(t+1)
\* for the update count t before, count t+1; everything else is unchanged.
C4_DecayFrame ==
  [][(pc = "accept" /\ Accepts /\ weight_method \in {1, 2}) =>
       /\ Len(current_data') = Len(current_data)
       /\ \A i \in DOMAIN current_data :
            LET old == current_data[i]
                new == current_data'[i]
                t == old.weight_times
            IN  /\ new.id = old.id /\ new.vals = old.vals /\ new.cls = old.cls
                /\ IF Covers(best_rule[1].antecedents, old) /\ old.cls = positive_class
                   THEN /\ new.weight_times = t + 1
                        /\ weight_method = 1 =>
                              new.weights * Pow(gamma[2], t) = Scale * Pow(gamma[1], t)
                        /\ weight_method = 2 => new.weights * (t + 1) = Scale
                        /\ t = 0 => new.weights = Scale
                        /\ (t = 1 /\ weight_method = 1 /\ gamma = <<1, 2>>) =>
                              2 * new.weights = Scale
                   ELSE new.weights = old.weights /\ new.weight_times = old.weight_times
    ]_vars

\* C4 witness: under gamma = 0.5 an example was covered a second time and
\* has weight 0.5, next to an example that was never touched.
C4_Witness ==
  /\ weight_method = 1 /\ gamma = <<1, 2>>
  /\ \E i, j \in DOMAIN current_data :
        /\ current_data[i].weight_times = 2 /\ 2 * current_data[i].weights = Scale
        /\ current_data[j].weight_times = 0 /\ current_data[j].weights = Scale

\* C5: under the covering policy an accepted rule removes all and only the
\* examples it covers, the others are unchanged, and the step completes
\* without an error.
C5_CoveringRemovesAndCompletes ==
  [][(pc = "accept" /\ Accepts /\ weight_method = 0) =>
       /\ current_data' = SelectSeq(current_data,
                                    LAMBDA r : ~Covers(best_rule[1].antecedents, r))
       /\ pc' # "KeyError"
       /\ rule_list' = Append(rule_list, best_rule[1])]_vars

\* C6: the rule a search holds as best is valid, carries its WRAcc against
\* the current dataset, is not below any candidate scored in any round of
\* the search, and is the first scored of those with the highest WRAcc.
C6_BestIsFirstMaximum ==
  (pc \in {"trim", "round", "accept"} /\ scored # <<>>) =>
     /\ best_rule # None
     /\ NoRepeatedVariable(best_rule[1].antecedents)
     /\ \A k \in DOMAIN rule_list :
           AntecedentSet(rule_list[k].antecedents) # AntecedentSet(best_rule[1].antecedents)
     /\ RatEq(best_rule[1].wracc,
              calculate_WRAcc(SelectSeq(current_data,
                                        LAMBDA r : Covers(best_rule[1].antecedents, r)),
                              SumWeights(current_data),
                              SumWeights(SelectSeq(current_data, IsPositive))))
     /\ \A k \in DOMAIN scored : ~RatLess(best_rule[1].wracc, scored[k].wracc)
     /\ \E k \in DOMAIN scored :
           /\ scored[k] = best_rule[1]
           /\ \A j \in 1..(k - 1) : RatLess(scored[j].wracc, best_rule[1].wracc)

\* C6 witness: a search ended with a best rule of two antecedents, a later
\* candidate ties with it, and the beam was trimmed on the way.
C6_Witness ==
  /\ pc = "accept" /\ best_rule # None
  /\ Len(best_rule[1].antecedents) = 2
  /\ \E j, k \in DOMAIN scored :
        /\ j < k
        /\ scored[j] = best_rule[1]
        /\ AntecedentSet(scored[k].antecedents) # AntecedentSet(scored[j].antecedents)
        /\ RatEq(scored[k].wracc, scored[j].wracc)
  /\ Len(scored) > max_expr

\* C7 as stated: whenever some conjunction of selectors is valid, the
\* search returns a rule.
C7_RuleWheneverValidConjunction ==
  (pc = "accept" /\ ExistsValidConjunction) => best_rule # None

\* C7 amended: the search returns no rule exactly when no single selector of
\* the current data is a valid rule.
C7_NoneIffNoValidSelector ==
  pc = "accept" => ((best_rule = None) <=> ~ExistsValidSelector)

\* C7 witness: a search returned no rule although a conjunction of two
\* selectors is valid.
C7_Witness ==
  /\ pc = "accept" /\ best_rule = None
  /\ ExistsValidConjunction
  /\ generate_selectors(current_data, columns) # <<>>

\* C8: trimming removes one candidate at a time, the first one with the
\* lowest WRAcc; the beam carried into the next round has
\* min(B, valid candidates of the round) candidates, none of them with a
\* lower WRAcc than a removed one.
C8_TrimToBeamWidth ==
  [][/\ (pc = "trim" /\ Len(new_rule_set) > max_expr) =>
          \E k \in DOMAIN new_rule_set :
             /\ new_rule_set' = RemoveAt(new_rule_set, k)
             /\ \A j \in DOMAIN new_rule_set :
                   ~RatLess(new_rule_set[j].wracc, new_rule_set[k].wracc)
             /\ \A j \in 1..(k - 1) :
                   RatLess(new_rule_set[k].wracc, new_rule_set[j].wracc)
     /\ (pc = "trim" /\ pc' # "trim") =>
          /\ Len(rule_set') = Min(max_expr, round_size)
          /\ Len(rule_set') + Len(removed) = round_size
          /\ \A i \in DOMAIN rule_set' : \A j \in DOMAIN removed :
                ~RatLess(rule_set'[i].wracc, removed[j].wracc)
     /\ pc' = "round" => Len(rule_set') <= max_expr
    ]_vars

\* C8 witness: a round of four candidates trimmed to a beam of one, two of
\* the removed candidates tied.
C8_Witness ==
  /\ pc = "round" /\ round_size = 4 /\ Len(rule_set) = 1 /\ Len(removed) = 3
  /\ \E i, j \in DOMAIN removed : i < j /\ RatEq(removed[i].wracc, removed[j].wracc)

\* C9: scenario 1 ends STOPPED after a single step with exactly the rule
\* A = x, WRAcc 0.25.
C9_Scenario1 ==
  (IsScenario1 /\ pc \in {"done", "KeyError"}) =>
     /\ pc = "done"
     /\ end = "STOPPED"
     /\ steps = 1
     /\ Len(rule_list) = 1
     /\ rule_list[1].antecedents = <<<<"A", "x">>>>
     /\ RatEq(rule_list[1].wracc, <<1, 4>>)

\* The number of conjunctions over the eligible columns that use no feature
\* twice, as unordered collections: (values + 1)^features - 1.
MaxRuleCount == Pow(Cardinality(Values) + 1, Len(columns)) - 1

====
